---------------------------- MODULE Spec2Model ----------------------------
(***************************************************************************)
(* A model of alburnum/maas/flesh.py: the command registry, the dispatcher *)
(* (main) and the profile commands (login, logout, list-profiles,          *)
(* refresh-profiles) working against the persisted profile store.          *)
(*                                                                         *)
(* One behaviour is a series of process invocations of the client against  *)
(* one persisted store.  Each handler is cut at its external calls, so     *)
(* that a failure or an interruption can arrive between any two of them.   *)
(***************************************************************************)
EXTENDS Integers, Sequences, FiniteSets, TLC

VARIABLES
    tree,         \* the root parser's subparsers: the registered commands
    pc,           \* position of the running invocation
    options,      \* the parsed options bundle (argparse Namespace)
    store,        \* the persisted profile store
    store0,       \* the persisted store when the invocation started
    config,       \* the mapping held by the ProfileConfig handle
    opens,        \* times the store was opened in this invocation
    closes,       \* times the store scope was released in this invocation
    credentials,  \* cmd_login.__call__: local `credentials`
    description,  \* session.description of the session just established
    todo,         \* cmd_refresh_profiles: names the loop has still to visit
    cur,          \* cmd_refresh_profiles: profile_name of this iteration
    refreshed,    \* cmd_refresh_profiles: name -> description written so far
    rows,         \* cmd_list_profiles: local `rows`
    called,       \* the handler that main invoked, or None
    stdout,       \* what was printed on sys.stdout
    stderr,       \* what was printed on sys.stderr
    exitCode,     \* the exit code main ended with, or None
    raised,       \* the failure that left main, or None
    error,        \* the failure raised inside the try block, or None
    failedAt      \* pc at which `error` was raised

vars == <<tree, pc, options, store, store0, config, opens, closes,
          credentials, description, todo, cur, refreshed, rows, called,
          stdout, stderr, exitCode, raised, error, failedAt>>

None == "None"

-----------------------------------------------------------------------------
(* Bounds of the model. *)

MaxProfiles == 2
MaxRegistrations == 3

ProfileNames == 1..MaxProfiles
Descriptions == {"api-a", "api-b"}
Urls == {"http://a/api/1.0/", "http://b/api/1.0/"}
ApiKey == <<"ck", "tk", "ts">>
Anonymous == <<>>
Absent == <<>>
Unbound == <<>>
EmptyStore == [n \in {} |-> None]

-----------------------------------------------------------------------------
(* Command classes, by their identifiers. *)

cmd_login == <<"c","m","d","_","l","o","g","i","n">>
cmd_logout == <<"c","m","d","_","l","o","g","o","u","t">>
cmd_list_profiles ==
    <<"c","m","d","_","l","i","s","t","_","p","r","o","f","i","l","e","s">>
cmd_refresh_profiles ==
    <<"c","m","d","_","r","e","f","r","e","s","h","_",
      "p","r","o","f","i","l","e","s">>
cmd_list_nodes == <<"c","m","d","_","l","i","s","t","_","n","o","d","e","s">>
cmd_list_tags == <<"c","m","d","_","l","i","s","t","_","t","a","g","s">>
cmd_list_files == <<"c","m","d","_","l","i","s","t","_","f","i","l","e","s">>
cmd_list_users == <<"c","m","d","_","l","i","s","t","_","u","s","e","r","s">>

OriginCommands ==
    {cmd_list_nodes, cmd_list_tags, cmd_list_files, cmd_list_users}

Upper == <<"A","B","C","D","E","F","G","H","I","J","K","L","M",
           "N","O","P","Q","R","S","T","U","V","W","X","Y","Z">>
Lower == <<"a","b","c","d","e","f","g","h","i","j","k","l","m",
           "n","o","p","q","r","s","t","u","v","w","x","y","z">>

LowerChar(c) ==
    IF \E i \in 1..Len(Upper) : Upper[i] = c
    THEN Lower[CHOOSE i \in 1..Len(Upper) : Upper[i] = c]
    ELSE c

\* Command.name: cls.__name__.replace("_", "-").lower(), "cmd-" stripped.
name(cls) ==
    LET replaced == [i \in 1..Len(cls) |-> IF cls[i] = "_" THEN "-" ELSE cls[i]]
        lowered == [i \in 1..Len(cls) |-> LowerChar(replaced[i])]
    IN  IF Len(lowered) >= 4 /\ SubSeq(lowered, 1, 4) = <<"c","m","d","-">>
        THEN SubSeq(lowered, 5, Len(lowered))
        ELSE lowered


-----------------------------------------------------------------------------
(* CommandRegistry: Command.register and prepare_parser. *)

Commands ==
    {cmd_login, cmd_logout, cmd_list_profiles, cmd_refresh_profiles,
     cmd_list_nodes, cmd_list_tags, cmd_list_files, cmd_list_users}

\* A parser with no subparsers yet: `map` is argparse's name -> parser map
\* (each parser carries execute=cls(command_parser)), `choices` the entries
\* its help lists.
EmptyTree == [map |-> [n \in {} |-> Absent], choices |-> <<>>]

\* Command.register: parser.subparsers.add_parser(name, ...) followed by
\* set_defaults(execute=cls(command_parser)).  The method itself looks at
\* neither the names already registered nor the result of add_parser.
register(t, cls, nm) ==
    [map |-> [n \in DOMAIN t.map \cup {nm} |->
                 IF n = nm THEN cls ELSE t.map[n]],
     choices |-> Append(t.choices, nm)]

prepare_parser ==
    LET t1 == register(EmptyTree, cmd_login, name(cmd_login))
        t2 == register(t1, cmd_logout, name(cmd_logout))
        t3 == register(t2, cmd_list_profiles, name(cmd_list_profiles))
        t4 == register(t3, cmd_refresh_profiles, name(cmd_refresh_profiles))
        t5 == register(t4, cmd_list_nodes, name(cmd_list_nodes))
        t6 == register(t5, cmd_list_tags, name(cmd_list_tags))
        t7 == register(t6, cmd_list_files, name(cmd_list_files))
    IN  register(t7, cmd_list_users, name(cmd_list_users))

Range(s) == {s[i] : i \in 1..Len(s)}

-----------------------------------------------------------------------------
(* ProfileStore: utils.ProfileConfig, as the handlers use it. *)

\* ProfileConfig.open().__enter__: the handle holds the persisted mapping.
StoreOpen(st) == st

\* ProfileConfig.open().__exit__: the handle's mapping is committed, on a
\* normal exit and on an error exit alike.
ScopeExit(cfg, st) == cfg

HasProfile(cfg, n) == n \in DOMAIN cfg

\* config[name] = profile
StoreWrite(cfg, n, profile) ==
    [m \in DOMAIN cfg \cup {n} |-> IF m = n THEN profile ELSE cfg[m]]

\* del config[name], for a name the handle holds
StoreDelete(cfg, n) == [m \in DOMAIN cfg \ {n} |-> cfg[m]]

-----------------------------------------------------------------------------
(* Dispatcher: ArgumentParser.error and main. *)

Root == <<"maas">>

\* Whether the invocation is inside a `with ProfileConfig.open()` block.
InScope == opens > closes

\* print_help(sys.stderr) of the root parser lists its subparsers; the help
\* of a command's own parser lists none.
Help(node) ==
    [help |-> node,
     commands |-> IF node = Root THEN Range(tree.choices) ELSE {}]

\* argparse's own error(): a message and no help.
ParserError_NoHelp(node, message) ==
    [stderr |-> <<message>>, exitCode |-> <<2>>, raised |-> None]

\* ArgumentParser.error: the parser's help, an empty line, the message, then
\* SystemExit(2).
ParserError(node, message) ==
    [stderr |-> <<Help(node), "", message>>, exitCode |-> <<2>>,
     raised |-> None]

\* main without the test of options.debug.
MainExcept_AlwaysTranslate(exc, opts) ==
    IF exc = "KeyboardInterrupt"
    THEN [stderr |-> <<>>, exitCode |-> <<1>>, raised |-> None]
    ELSE ParserError(Root, exc)

\* main with the interruption handled by the clause for Exception.
MainExcept_NoInterruptClause(exc, opts) ==
    IF opts.debug
    THEN [stderr |-> <<>>, exitCode |-> Absent, raised |-> exc]
    ELSE ParserError(Root, exc)

\* main reporting through the parser of the command that ran.
MainExcept_CommandParser(exc, opts) ==
    IF exc = "KeyboardInterrupt"
    THEN [stderr |-> <<>>, exitCode |-> <<1>>, raised |-> None]
    ELSE IF opts.debug
         THEN [stderr |-> <<>>, exitCode |-> Absent, raised |-> exc]
         ELSE ParserError(name(opts.execute), exc)

\* main: the except clauses around parse_args and execute(options).
MainExcept(exc, opts) ==
    IF exc = "KeyboardInterrupt"
    THEN [stderr |-> <<>>, exitCode |-> <<1>>, raised |-> None]
    ELSE IF opts.debug
         THEN [stderr |-> <<>>, exitCode |-> Absent, raised |-> exc]
         ELSE ParserError(Root, exc)

\* A failure raised at pc: the store scope, if open, is left through
\* __exit__, then main's except clauses run.
Raise(exc) ==
    LET out == MainExcept(exc, options)
    IN  /\ store' = IF InScope THEN ScopeExit(config, store) ELSE store
        /\ closes' = IF InScope THEN closes + 1 ELSE closes
        /\ config' = EmptyStore
        /\ stderr' = out.stderr
        /\ exitCode' = out.exitCode
        /\ raised' = out.raised
        /\ error' = exc
        /\ failedAt' = pc
        /\ pc' = "done"
        /\ UNCHANGED <<tree, options, store0, opens, credentials, description,
                       todo, cur, refreshed, rows, called, stdout>>

\* The values parse_args can produce for the command named nm.
Namespaces(nm) ==
    LET cls == tree.map[nm]
        base == {[debug |-> d, execute |-> cls] : d \in BOOLEAN}
    IN  IF cls = cmd_login
        THEN {[debug |-> b.debug, execute |-> cls, profile_name |-> p,
               url |-> u, credentials |-> c, insecure |-> FALSE] :
                  b \in base, p \in ProfileNames, u \in Urls,
                  c \in {None, "-", "ck:tk:ts"}}
        ELSE IF cls \in {cmd_list_profiles, cmd_refresh_profiles}
        THEN base
        ELSE {[debug |-> b.debug, execute |-> cls, profile_name |-> p] :
                  b \in base, p \in ProfileNames}

frame == <<tree, store, store0, config, opens, closes, credentials,
           description, todo, cur, refreshed, rows>>

\* main: options = parser.parse_args(argv[1:]), with a command or with
\* none (only the program name, or only --debug).
ParseArgs ==
    /\ pc = "start"
    /\ \/ \E nm \in DOMAIN tree.map : options' \in Namespaces(nm)
       \/ \E d \in BOOLEAN : options' = [debug |-> d]
    /\ pc' = "parsed"
    /\ UNCHANGED <<frame, called, stdout, stderr, exitCode, raised, error,
                   failedAt>>

\* parse_args rejects argv: argparse calls error() on the parser that met
\* the problem, the root parser or a command's own.
ParseArgsError ==
    /\ pc = "start"
    /\ \E node \in {Root} \cup DOMAIN tree.map :
          LET out == ParserError(node, "usage") IN
          /\ stderr' = out.stderr
          /\ exitCode' = out.exitCode
    /\ pc' = "done"
    /\ UNCHANGED <<frame, options, called, stdout, raised, error, failedAt>>

\* main: options.execute raises AttributeError: parser.error(...).
NoArguments ==
    /\ pc = "parsed"
    /\ "execute" \notin DOMAIN options
    /\ LET out == ParserError(Root, "No arguments given.") IN
          /\ stderr' = out.stderr
          /\ exitCode' = out.exitCode
    /\ pc' = "done"
    /\ UNCHANGED <<frame, options, called, stdout, raised, error, failedAt>>

Entry(cls) ==
    CASE cls = cmd_login -> "login_credentials"
      [] cls = cmd_logout -> "logout_open"
      [] cls = cmd_list_profiles -> "list_open"
      [] cls = cmd_refresh_profiles -> "refresh_open"
      [] OTHER -> "origin_session"

\* main: execute(options).
Execute ==
    /\ pc = "parsed"
    /\ "execute" \in DOMAIN options
    /\ called' = options.execute
    /\ pc' = Entry(options.execute)
    /\ UNCHANGED <<frame, options, stdout, stderr, exitCode, raised, error,
                   failedAt>>

\* The handler returned: main returns and the process ends with status 0.
Return ==
    /\ pc = "return"
    /\ exitCode' = <<0>>
    /\ pc' = "done"
    /\ UNCHANGED <<frame, options, called, stdout, stderr, raised, error,
                   failedAt>>

HandlerPcs ==
    {"login_credentials", "login_session", "login_open", "login_write",
     "login_close", "login_print",
     "logout_open", "logout_delete", "logout_close",
     "list_open", "list_rows", "list_close", "list_print",
     "refresh_open", "refresh_next", "refresh_write",
     "origin_session", "origin_print", "return"}

\* KeyboardInterrupt arriving while the handler runs.
Interrupt ==
    /\ pc \in HandlerPcs
    /\ Raise("KeyboardInterrupt")

-----------------------------------------------------------------------------
(* cmd_login *)

\* obtain_credentials(options.credentials): a key given on the command line
\* is parsed into its three parts; with none given, or "-", the key is read
\* from the user, who may give one, give none (anonymous) or a malformed one.
Obtainable(arg) ==
    IF arg = "ck:tk:ts" THEN {ApiKey} ELSE {ApiKey, Anonymous}

\* The entry with the credentials left out.
LoginProfile_NoCredentials(profile_name, url, creds, desc) ==
    [credentials |-> Anonymous, description |-> desc, name |-> profile_name,
     url |-> url]

\* The entry cmd_login stores under profile_name.
LoginProfile(profile_name, url, creds, desc) ==
    [credentials |-> creds, description |-> desc, name |-> profile_name,
     url |-> url]

\* cmd_login opening the store before it has the credentials.
LoginObtainCredentials_InScope ==
    /\ pc = "login_credentials"
    /\ \E c \in Obtainable(options.credentials) : credentials' = c
    /\ config' = StoreOpen(store)
    /\ opens' = opens + 1
    /\ pc' = "login_session"
    /\ UNCHANGED <<tree, options, store, store0, closes, description, todo,
                   cur, refreshed, rows, called, stdout, stderr, exitCode,
                   raised, error, failedAt>>

\* credentials = obtain_credentials(options.credentials); check_valid_apikey
\* is a stub that returns True, so neither SystemExit of the method is raised.
LoginObtainCredentials ==
    /\ pc = "login_credentials"
    /\ \/ /\ \E c \in Obtainable(options.credentials) : credentials' = c
          /\ pc' = "login_session"
          /\ UNCHANGED <<tree, options, store, store0, config, opens, closes,
                         description, todo, cur, refreshed, rows, called, stdout,
                         stderr, exitCode, raised, error, failedAt>>
       \/ /\ options.credentials # "ck:tk:ts"
          /\ Raise("ValueError")

\* session = bones.SessionAPI.fromURL(options.url, ...)
LoginEstablishSession ==
    /\ pc = "login_session"
    /\ \/ /\ \E d \in Descriptions : description' = <<d>>
          /\ pc' = "login_open"
          /\ UNCHANGED <<tree, options, store, store0, config, opens, closes,
                         credentials, todo, cur, refreshed, rows, called, stdout,
                         stderr, exitCode, raised, error, failedAt>>
       \/ Raise("CallError")

\* with utils.ProfileConfig.open() as config:
OpenStore(next) ==
    /\ config' = StoreOpen(store)
    /\ opens' = opens + 1
    /\ pc' = next
    /\ UNCHANGED <<tree, options, store, store0, closes, credentials,
                   description, todo, cur, refreshed, rows, called, stdout, stderr,
                   exitCode, raised, error, failedAt>>

\* Normal exit from the with block.
CloseStore(next) ==
    /\ store' = ScopeExit(config, store)
    /\ closes' = closes + 1
    /\ config' = EmptyStore
    /\ pc' = next
    /\ UNCHANGED <<tree, options, store0, opens, credentials, description,
                   todo, cur, refreshed, rows, called, stdout, stderr, exitCode,
                   raised, error, failedAt>>

LoginOpenStore == pc = "login_open" /\ OpenStore("login_write")

\* config[profile_name] = {...}; profile = config[profile_name]
LoginWrite ==
    /\ pc = "login_write"
    /\ config' = StoreWrite(config, options.profile_name,
                     LoginProfile(options.profile_name, options.url,
                                  credentials, description[1]))
    /\ pc' = "login_close"
    /\ UNCHANGED <<tree, options, store, store0, opens, closes, credentials,
                   description, todo, cur, refreshed, rows, called, stdout, stderr,
                   exitCode, raised, error, failedAt>>

LoginCloseStore == pc = "login_close" /\ CloseStore("login_print")

\* self.print_whats_next(profile)
LoginPrint ==
    /\ pc = "login_print"
    /\ stdout' = <<"whats_next", store[options.profile_name].url,
                   store[options.profile_name].name>>
    /\ pc' = "return"
    /\ UNCHANGED <<frame, options, called, stderr, exitCode, raised, error,
                   failedAt>>

-----------------------------------------------------------------------------
(* cmd_logout *)

LogoutOpenStore == pc = "logout_open" /\ OpenStore("logout_delete")

\* cmd_logout ignoring a name the store does not hold.
LogoutDelete_Quiet ==
    /\ pc = "logout_delete"
    /\ config' = StoreDelete(config, options.profile_name)
    /\ pc' = "logout_close"
    /\ UNCHANGED <<tree, options, store, store0, opens, closes, credentials,
                   description, todo, cur, refreshed, rows, called, stdout,
                   stderr, exitCode, raised, error, failedAt>>

\* del config[options.profile_name]
LogoutDelete ==
    /\ pc = "logout_delete"
    /\ IF HasProfile(config, options.profile_name)
       THEN /\ config' = StoreDelete(config, options.profile_name)
            /\ pc' = "logout_close"
            /\ UNCHANGED <<tree, options, store, store0, opens, closes,
                           credentials, description, todo, cur, refreshed, rows,
                           called, stdout, stderr, exitCode, raised, error,
                           failedAt>>
       ELSE Raise("KeyError")

LogoutCloseStore == pc = "logout_close" /\ CloseStore("return")

-----------------------------------------------------------------------------
(* cmd_list_profiles *)

ListOpenStore == pc = "list_open" /\ OpenStore("list_rows")

RECURSIVE Sorted(_)
Sorted(S) ==
    IF S = {} THEN <<>>
    ELSE LET m == CHOOSE x \in S : \A y \in S : x <= y
         IN  <<m>> \o Sorted(S \ {m})

Row(profile_name, profile) ==
    IF profile.credentials = Anonymous
    THEN <<profile_name, profile.url, "(anonymous)">>
    ELSE <<profile_name, profile.url>>

\* for profile_name in sorted(config): rows.append(...)
ListRows ==
    /\ pc = "list_rows"
    /\ rows' = LET names == Sorted(DOMAIN config)
               IN  <<<<"Profile name", "URL">>>> \o
                   [i \in 1..Len(names) |-> Row(names[i], config[names[i]])]
    /\ pc' = "list_close"
    /\ UNCHANGED <<tree, options, store, store0, config, opens, closes,
                   credentials, description, todo, cur, refreshed, called,
                   stdout, stderr, exitCode, raised, error, failedAt>>

ListCloseStore == pc = "list_close" /\ CloseStore("list_print")

\* print_table(rows)
ListPrint ==
    /\ pc = "list_print"
    /\ stdout' = rows
    /\ pc' = "return"
    /\ UNCHANGED <<frame, options, called, stderr, exitCode, raised, error,
                   failedAt>>

-----------------------------------------------------------------------------
(* cmd_refresh_profiles *)

\* with utils.ProfileConfig.open() as config: for profile_name in config:
RefreshOpenStore ==
    /\ pc = "refresh_open"
    /\ config' = StoreOpen(store)
    /\ opens' = opens + 1
    /\ todo' = DOMAIN store
    /\ pc' = "refresh_next"
    /\ UNCHANGED <<tree, options, store, store0, closes, credentials,
                   description, cur, refreshed, rows, called, stdout, stderr,
                   exitCode, raised, error, failedAt>>

\* Credentials(*creds) unpacks the stored credentials into the three fields
\* of the tuple; the None of an anonymous profile cannot be unpacked.
CanUnpack(creds) == creds # Anonymous /\ Len(creds) = 3

\* One turn of the loop up to the session: profile = config[profile_name],
\* Credentials(*creds), bones.SessionAPI.fromURL(url, credentials=...).
RefreshSession ==
    /\ pc = "refresh_next"
    /\ todo # {}
    /\ \E n \in todo :
          IF ~CanUnpack(config[n].credentials)
          THEN Raise("TypeError")
          ELSE \/ /\ \E d \in Descriptions : description' = <<d>>
                  /\ cur' = <<n>>
                  /\ todo' = todo \ {n}
                  /\ pc' = "refresh_write"
                  /\ UNCHANGED <<tree, options, store, store0, config, opens,
                                 closes, credentials, refreshed, rows, called,
                                 stdout, stderr, exitCode, raised, error,
                                 failedAt>>
               \/ Raise("CallError")

\* profile["description"] = session.description
Refreshed(profile, desc) == [profile EXCEPT !.description = desc]

\* The loop without config[profile_name] = profile.
RefreshWrite_NoStore ==
    /\ pc = "refresh_write"
    /\ refreshed' = [n \in DOMAIN refreshed \cup {cur[1]} |->
                        IF n = cur[1] THEN description[1] ELSE refreshed[n]]
    /\ pc' = "refresh_next"
    /\ UNCHANGED <<tree, options, store, store0, config, opens, closes,
                   credentials, description, todo, cur, rows, called, stdout,
                   stderr, exitCode, raised, error, failedAt>>

\* profile["description"] = ...; config[profile_name] = profile
RefreshWrite ==
    /\ pc = "refresh_write"
    /\ config' = StoreWrite(config, cur[1],
                            Refreshed(config[cur[1]], description[1]))
    /\ refreshed' = [n \in DOMAIN refreshed \cup {cur[1]} |->
                        IF n = cur[1] THEN description[1] ELSE refreshed[n]]
    /\ pc' = "refresh_next"
    /\ UNCHANGED <<tree, options, store, store0, opens, closes, credentials,
                   description, todo, cur, rows, called, stdout, stderr,
                   exitCode, raised, error, failedAt>>

\* The loop is exhausted: normal exit from the with block.
RefreshCloseStore ==
    /\ pc = "refresh_next"
    /\ todo = {}
    /\ CloseStore("return")

-----------------------------------------------------------------------------
(* OriginCommand: list-nodes, list-tags, list-files, list-users *)

\* session = bones.SessionAPI.fromProfileName(options.profile_name)
OriginSession ==
    /\ pc = "origin_session"
    /\ IF options.profile_name \notin DOMAIN store
       THEN Raise("KeyError")
       ELSE \/ /\ pc' = "origin_print"
               /\ UNCHANGED <<frame, options, called, stdout, stderr,
                              exitCode, raised, error, failedAt>>
            \/ Raise("CallError")

\* self.execute(origin, options): print_table(chain(head, body))
OriginPrint ==
    /\ pc = "origin_print"
    /\ \/ /\ stdout' = <<name(called)>>
          /\ pc' = "return"
          /\ UNCHANGED <<frame, options, called, stderr, exitCode, raised,
                         error, failedAt>>
       \/ Raise("CallError")

-----------------------------------------------------------------------------
(* The specification of the client. *)

\* The first invocation: no store file yet, the parser as prepare_parser
\* builds it.
Init ==
    /\ tree = prepare_parser
    /\ store = EmptyStore
    /\ store0 = EmptyStore
    /\ pc = "start"
    /\ options = Unbound
    /\ config = EmptyStore
    /\ opens = 0
    /\ closes = 0
    /\ credentials = Anonymous
    /\ description = Absent
    /\ todo = {}
    /\ cur = Absent
    /\ refreshed = EmptyStore
    /\ rows = <<>>
    /\ called = Absent
    /\ stdout = <<>>
    /\ stderr = <<>>
    /\ exitCode = Absent
    /\ raised = None
    /\ error = None
    /\ failedAt = ""

\* The process has ended; the client is run again on the store it left.
NextInvocation ==
    /\ pc = "done"
    /\ tree' = tree
    /\ store' = store
    /\ store0' = store
    /\ pc' = "start"
    /\ options' = Unbound
    /\ config' = EmptyStore
    /\ opens' = 0
    /\ closes' = 0
    /\ credentials' = Anonymous
    /\ description' = Absent
    /\ todo' = {}
    /\ cur' = Absent
    /\ refreshed' = EmptyStore
    /\ rows' = <<>>
    /\ called' = Absent
    /\ stdout' = <<>>
    /\ stderr' = <<>>
    /\ exitCode' = Absent
    /\ raised' = None
    /\ error' = None
    /\ failedAt' = ""

Next ==
    \/ ParseArgs
    \/ ParseArgsError
    \/ NoArguments
    \/ Execute
    \/ Return
    \/ Interrupt
    \/ LoginObtainCredentials
    \/ LoginEstablishSession
    \/ LoginOpenStore
    \/ LoginWrite
    \/ LoginCloseStore
    \/ LoginPrint
    \/ LogoutOpenStore
    \/ LogoutDelete
    \/ LogoutCloseStore
    \/ ListOpenStore
    \/ ListRows
    \/ ListCloseStore
    \/ ListPrint
    \/ RefreshOpenStore
    \/ RefreshSession
    \/ RefreshWrite
    \/ RefreshCloseStore
    \/ OriginSession
    \/ OriginPrint
    \/ NextInvocation

Spec == Init /\ [][Next]_vars

-----------------------------------------------------------------------------
(* The specification of the registry: commands are registered one by one   *)
(* on an empty parser, under their derived or an explicit name, and the    *)
(* parser is then used to dispatch.                                        *)

ExplicitNames == {name(cmd_login), <<"l","s">>}

\* cls.register(parser, name=explicit).  The call of add_parser is the only
\* place that could see a name registered twice, and the method does not
\* look: argparse's add_parser replaces the entry of the name, or, in the
\* interpreters whose argparse checks for it, raises ArgumentError.
RegisterCommand(cls, explicit) ==
    LET nm == IF explicit = Absent THEN name(cls) ELSE explicit
    IN  /\ pc = "startup"
        /\ Len(tree.choices) < MaxRegistrations
        /\ \/ /\ tree' = register(tree, cls, nm)
              /\ UNCHANGED <<pc, raised>>
           \/ /\ nm \in DOMAIN tree.map
              /\ raised' = "ArgumentError"
              /\ pc' = "done"
              /\ tree' = tree
        /\ UNCHANGED <<options, store, store0, config, opens, closes,
                       credentials, description, todo, cur, refreshed, rows,
                       called, stdout, stderr, exitCode, error, failedAt>>

\* prepare_parser returns the parser.
PrepareDone ==
    /\ pc = "startup"
    /\ pc' = "start"
    /\ UNCHANGED <<frame, options, called, stdout, stderr, exitCode, raised,
                   error, failedAt>>

InitRegistry ==
    /\ tree = EmptyTree
    /\ store = EmptyStore
    /\ store0 = EmptyStore
    /\ pc = "startup"
    /\ options = Unbound
    /\ config = EmptyStore
    /\ opens = 0
    /\ closes = 0
    /\ credentials = Anonymous
    /\ description = Absent
    /\ todo = {}
    /\ cur = Absent
    /\ refreshed = EmptyStore
    /\ rows = <<>>
    /\ called = Absent
    /\ stdout = <<>>
    /\ stderr = <<>>
    /\ exitCode = Absent
    /\ raised = None
    /\ error = None
    /\ failedAt = ""

NextRegistry ==
    \/ \E cls \in {cmd_login, cmd_logout, cmd_list_profiles},
          explicit \in {Absent} \cup ExplicitNames :
          RegisterCommand(cls, explicit)
    \/ PrepareDone
    \/ ParseArgs
    \/ ParseArgsError
    \/ NoArguments
    \/ Execute

SpecRegistry == InitRegistry /\ [][NextRegistry]_vars

-----------------------------------------------------------------------------
(* Properties. *)

Done == pc = "done"

\* The invocation ran a handler and a failure other than an interruption
\* was raised in it.
HandlerFailed ==
    /\ Done
    /\ called # Absent
    /\ error \notin {None, "KeyboardInterrupt"}

\* Every profile but n is in st exactly as it is in store0.
OthersUnchanged(st, n) ==
    /\ DOMAIN st \ {n} = DOMAIN store0 \ {n}
    /\ \A m \in DOMAIN st \ {n} : st[m] = store0[m]

\* C1: a failure of a handler that is not an interruption ends main, without
\* --debug, with exit code 2 and the description of the failure on stderr,
\* nothing leaving main; with --debug the failure leaves main as it was
\* raised and nothing is printed.
C1_FailureTranslated ==
    HandlerFailed =>
        IF options.debug
        THEN raised = error /\ stderr = <<>> /\ exitCode = Absent
        ELSE /\ raised = None
             /\ exitCode = <<2>>
             /\ Len(stderr) = 3
             /\ stderr[3] = error

C1_Witness ==
    /\ HandlerFailed
    /\ error = "CallError"
    /\ ~options.debug
    /\ exitCode = <<2>>

\* C2: an interruption during the handler, the store scope open or not, ends
\* main with exit code 1 whatever --debug says, and prints no translated
\* message.
C2_InterruptExitsOne ==
    (Done /\ error = "KeyboardInterrupt") =>
        /\ exitCode = <<1>>
        /\ raised = None
        /\ stderr = <<>>

C2_Witness ==
    /\ Done
    /\ error = "KeyboardInterrupt"
    /\ options.debug
    /\ failedAt = "login_write"
    /\ opens = 1
    /\ closes = 1
    /\ exitCode = <<1>>

\* parse_args returned a namespace that names no command.
NoSubcommand == "debug" \in DOMAIN options /\ "execute" \notin DOMAIN options

\* C3: with no subcommand no handler is invoked and the store is not opened;
\* main ends with exit code 2 after printing, on stderr, the help that lists
\* the registered command names.
C3_NoSubcommandUsage ==
    NoSubcommand =>
        /\ called = Absent
        /\ opens = 0
        /\ store = store0
        /\ Done =>
              /\ exitCode = <<2>>
              /\ raised = None
              /\ stdout = <<>>
              /\ Len(stderr) = 3
              /\ stderr[1].commands = {name(cls) : cls \in Commands}
              /\ stderr[1].commands = DOMAIN tree.map

C3_Witness ==
    /\ Done
    /\ NoSubcommand
    /\ options.debug
    /\ exitCode = <<2>>
    /\ store # EmptyStore

AfterRefresh(n) == Refreshed(store0[n], refreshed[n])

\* C5: refresh-profiles, when neither interrupted nor failed by the remote
\* API, processes every stored profile, anonymous ones included, and leaves
\* each with its name, URL and credentials and the description of the new
\* session.
C5_RefreshProcessesEveryProfile ==
    (Done /\ called = cmd_refresh_profiles
          /\ error \notin {"KeyboardInterrupt", "CallError"}) =>
        /\ error = None
        /\ DOMAIN refreshed = DOMAIN store0
        /\ DOMAIN store = DOMAIN store0
        /\ \A n \in DOMAIN store0 : store[n] = AfterRefresh(n)

\* C6: when refresh-profiles fails inside its loop, the store holds the new
\* description of every profile processed before the failure, every other
\* profile as it was, and the store scope was released exactly once.
C6_RefreshFailureKeepsUpdates ==
    (Done /\ called = cmd_refresh_profiles /\ error # None
          /\ failedAt \in {"refresh_next", "refresh_write"}) =>
        /\ opens = 1
        /\ closes = 1
        /\ DOMAIN store = DOMAIN store0
        /\ \A n \in DOMAIN store0 :
              store[n] = IF n \in DOMAIN refreshed
                         THEN AfterRefresh(n) ELSE store0[n]

C6_Witness ==
    /\ Done
    /\ called = cmd_refresh_profiles
    /\ error = "CallError"
    /\ failedAt = "refresh_next"
    /\ \E n \in DOMAIN refreshed : store[n].description # store0[n].description
    /\ DOMAIN store0 \ DOMAIN refreshed # {}

\* C7: logout P on a store holding P removes P and nothing else; on a store
\* not holding P it fails with the store's not-found error, which reaches
\* main (exit code 2 without --debug), and the store is as it was.
C7_LogoutRemovesExactly ==
    (Done /\ called = cmd_logout /\ error # "KeyboardInterrupt") =>
        IF options.profile_name \in DOMAIN store0
        THEN /\ error = None
             /\ exitCode = <<0>>
             /\ ~HasProfile(store, options.profile_name)
             /\ OthersUnchanged(store, options.profile_name)
        ELSE /\ error = "KeyError"
             /\ failedAt = "logout_delete"
             /\ store = store0
             /\ IF options.debug
                THEN raised = "KeyError"
                ELSE exitCode = <<2>> /\ raised = None /\ stderr[3] = "KeyError"

C7_Witness ==
    /\ Done
    /\ called = cmd_logout
    /\ options.profile_name \notin DOMAIN store0
    /\ store0 # EmptyStore
    /\ ~options.debug
    /\ exitCode = <<2>>
    /\ closes = 1

\* C8: after a successful login under P with URL U the store holds, under P,
\* the profile named P with URL U, the credentials obtained for the login
\* and the description of the session just established, whether P was there
\* before or not; every other profile is as it was.
C8_LoginStoresProfile ==
    (Done /\ called = cmd_login /\ error = None) =>
        /\ exitCode = <<0>>
        /\ HasProfile(store, options.profile_name)
        /\ store[options.profile_name] =
              [name |-> options.profile_name, url |-> options.url,
               credentials |-> credentials, description |-> description[1]]
        /\ options.credentials = "ck:tk:ts" =>
              store[options.profile_name].credentials = ApiKey
        /\ OthersUnchanged(store, options.profile_name)

C8_Witness ==
    /\ Done
    /\ called = cmd_login
    /\ error = None
    /\ options.profile_name \in DOMAIN store0
    /\ store0[options.profile_name].url # options.url
    /\ store[options.profile_name].credentials = ApiKey
    /\ DOMAIN store0 \ {options.profile_name} # {}

\* C9, as claimed: no name is ever registered twice at one level of the tree
\* without the registration being rejected.
C9_DuplicateRejected == Len(tree.choices) = Cardinality(DOMAIN tree.map)

\* C10: login opens the store only once it has the credentials and the
\* session; when either step fails the store is never opened in the
\* invocation and holds what it held before.
C10_LoginOpensStoreLast ==
    called = cmd_login =>
        /\ pc \in {"login_credentials", "login_session"} =>
              opens = 0 /\ store = store0
        /\ opens > 0 => description # Absent
        /\ failedAt \in {"login_credentials", "login_session"} =>
              opens = 0 /\ closes = 0 /\ store = store0

C10_Witness ==
    /\ Done
    /\ called = cmd_login
    /\ failedAt = "login_session"
    /\ error = "CallError"
    /\ opens = 0
    /\ store0 # EmptyStore

=============================================================================
